---- MODULE Spec2Model ----
(***************************************************************************)
(* Model of the Person data store (src/pandas.py): the User and Person     *)
(* tables, the Flask session of a client, the permission_required          *)
(* decorator and the route handlers.                                       *)
(*                                                                         *)
(* The permission column is the sequence of its words and "," separators,  *)
(* and has_permission splits it as str.split(',') does; the other text     *)
(* values are atoms.  A JSON body is a function from its keys to their     *)
(* values.                                                                 *)
(*                                                                         *)
(* Every handler is one step, except create_person, which is two (the      *)
(* decorator, uniqueness query and construction of the Person object, then *)
(* the insert and commit), so that requests can interleave between the     *)
(* query and the commit; `inflight` holds the objects built and not yet    *)
(* inserted, in the order of their requests.  A commit that breaks a       *)
(* constraint of the table raises an IntegrityError, which no handler      *)
(* catches: the request ends 500 and writes nothing.                       *)
(*                                                                         *)
(* Three parts of the state record history and are read by no handler:     *)
(* `last`, the answer of the step just taken; `terminated`, whether the    *)
(* session was logged out and has not logged in since; and the `creator`   *)
(* field of a Person row, the user whose request inserted it.              *)
(***************************************************************************)
EXTENDS Integers, Sequences, FiniteSets, TLC

VARIABLES users, persons, session, terminated, inflight, last

vars == <<users, persons, session, terminated, inflight, last>>

---------------------------------------------------------------------------
(* Bounds of the model *)

\* create requests that may be under way at once
MaxInflight == 2

\* largest Person id the model lets the table hand out
MaxId == 2

---------------------------------------------------------------------------
(* Values *)

\* None in a text column
NULL == "None"

\* the result of a query that finds no row
NoRow == [none |-> TRUE]

READ_PERMISSION == "read"

CREATE_PERMISSION == "create"

UPDATE_PERMISSION == "update"

DELETE_PERMISSION == "delete"

\* the permission column of the seeded administrator
AdminPermissions ==
    <<"read", ",", "create", ",", "update", ",", "delete", ",", "admin">>

\* browser sessions (cookie jars) talking to the application
Sessions == {"s1"}

\* usernames a login request may carry
Usernames == {"admin", "bob", "eve"}

\* usernames a register request may carry; the User table holds each at most
\* once
RegisterNames == {"admin", "bob"}

\* passwords a login request may carry (a register request carries "pw")
Passwords == {"admin123", "pw"}

\* salts generate_password_hash may draw
Salts == {"salt"}

\* values of the optional 'permissions' key of a register request
PermissionInputs ==
    { <<"read", ",", "create", ",", "update", ",", "delete">>,
      <<"create", ",", "admin">>,
      <<>> }

\* JSON bodies of register requests
RegisterPayloads ==
    [username : RegisterNames, password : {"pw"}]
        \cup [username : RegisterNames, password : {"pw"},
              permissions : PermissionInputs]

\* JSON bodies of login requests
LoginPayloads == [username : Usernames, password : Passwords]

\* emails a request body may carry; the Person table holds each at most once
Emails == {"ann@x.com", "bo@x.com"}

Ages == {30}

\* the columns of Person
PersonColumns ==
    {"id", "name", "age", "email", "phone", "address", "created_by"}

\* the <int:id> a route may carry
RouteIds == 1 .. MaxId

\* user ids a request body may name
UserIds == 1 .. Cardinality(RegisterNames)

\* JSON bodies of create requests: the required keys, with or without a
\* 'created_by' of the caller's choosing
CreatePayloads ==
    [name : {"Ann"}, age : Ages, email : Emails]
        \cup [name : {"Ann"}, age : Ages, email : Emails, created_by : UserIds]

\* JSON bodies of update requests
UpdatePayloads ==
    [email : Emails] \cup [age : Ages] \cup [email : Emails, age : Ages]
        \cup [id : RouteIds] \cup [created_by : UserIds]
        \cup [nickname : {"Annie"}]

---------------------------------------------------------------------------
(* Text and password helpers *)

\* str.split(','): the words between the separators; the empty text splits
\* into one empty word
RECURSIVE SplitFrom(_, _, _)
SplitFrom(s, i, word) ==
    IF i > Len(s) THEN <<word>>
    ELSE IF s[i] = "," THEN <<word>> \o SplitFrom(s, i + 1, <<>>)
    ELSE SplitFrom(s, i + 1, Append(word, s[i]))

Split(s) == SplitFrom(s, 1, <<>>)

Digest(salt, password) == <<"digest", salt, password>>

\* generate_password_hash: method$salt$hash
generate_password_hash(salt, password) ==
    <<"scrypt", salt, Digest(salt, password)>>

check_password_hash(pwhash, password) ==
    pwhash[3] = Digest(pwhash[2], password)

\* User.has_permission
has_permission(user, permission) ==
    \E i \in DOMAIN Split(user.permissions) :
        Split(user.permissions)[i] = <<permission>>

\* dict.get(key, default)
DictGet(data, key, default) ==
    IF key \in DOMAIN data THEN data[key] ELSE default

---------------------------------------------------------------------------
(* The store *)

\* User.query.get(user_id)
GetUser(user_id) ==
    IF \E u \in users : u.id = user_id
    THEN CHOOSE u \in users : u.id = user_id
    ELSE NoRow

\* User.query.filter_by(username=...).first()
UserByName(username) ==
    IF \E u \in users : u.username = username
    THEN CHOOSE u \in users : u.username = username
    ELSE NoRow

\* Person.query.get(id), the lookup of get_or_404
FindPerson(id) ==
    IF \E p \in persons : p.id = id
    THEN CHOOSE p \in persons : p.id = id
    ELSE NoRow

\* the uniqueness query filtering on the wrong column
EmailExistsByName(email) == \E p \in persons : p.name = email

\* Person.query.filter_by(email=...).first() is not None
EmailExists(email) == \E p \in persons : p.email = email

SetMax(S) == IF S = {} THEN 0 ELSE CHOOSE m \in S : \A x \in S : x <= m

\* the rowid SQLite gives an inserted row: one more than the largest present
NextId(rows) == SetMax({r.id : r \in rows}) + 1

\* the constraints the Person table enforces at commit: the primary key, the
\* unique email, the NOT NULL text columns
PersonTableOK(rows) ==
    /\ \A p, q \in rows : (p.id = q.id \/ p.email = q.email) => p = q
    /\ \A p \in rows : p.name # NULL /\ p.email # NULL

---------------------------------------------------------------------------
(* Sessions and responses *)

\* the session after session.clear(), and of a client that never logged in
EmptySession == [k \in {} |-> 0]

\* not session.get('user_id')
NoUserId(s) ==
    \/ "user_id" \notin DOMAIN session[s]
    \/ session[s]["user_id"] = 0

\* what a step answers: the handler (for create_person, which of its two
\* steps), the session of the request, the HTTP status (0: the request is
\* still under way), the 'error' text of the body (empty on success), the
\* <int:id> of the route (0 when it has none) and the Person dictionaries of
\* a success body
Response(op, s, code, error, id, body) ==
    [op |-> op, sess |-> s, code |-> code, error |-> error, id |-> id,
     body |-> body]

\* the dictionary a handler serialises a Person into
PersonJson(p) == [c \in PersonColumns |-> p[c]]

\* permission_required with a shortcut for administrators: a holder of
\* 'admin' passes whatever permission the route requires
DenialAdminBypass(s, permission) ==
    IF NoUserId(s)
    THEN <<401, <<"Authentication required">>>>
    ELSE IF \/ GetUser(session[s]["user_id"]) = NoRow
            \/ /\ ~has_permission(GetUser(session[s]["user_id"]), permission)
               /\ ~has_permission(GetUser(session[s]["user_id"]), "admin")
    THEN <<403, <<"Permission denied. Requires: ", permission>>>>
    ELSE <<>>

\* permission_required deciding on the permissions copied into the session
\* at login
DenialFromSnapshot(s, permission) ==
    IF NoUserId(s)
    THEN <<401, <<"Authentication required">>>>
    ELSE IF \/ GetUser(session[s]["user_id"]) = NoRow
            \/ ~has_permission([permissions |-> session[s]["permissions"]],
                               permission)
    THEN <<403, <<"Permission denied. Requires: ", permission>>>>
    ELSE <<>>

\* permission_required: <<>> when the wrapped handler runs, otherwise the
\* <<code, error>> the decorator answers with
Denial(s, permission) ==
    IF NoUserId(s)
    THEN <<401, <<"Authentication required">>>>
    ELSE IF \/ GetUser(session[s]["user_id"]) = NoRow
            \/ ~has_permission(GetUser(session[s]["user_id"]), permission)
    THEN <<403, <<"Permission denied. Requires: ", permission>>>>
    ELSE <<>>

\* person.created_by != user_id and not user.has_permission('admin')
NotOwnerNorAdmin(s, person) ==
    /\ person.created_by # session[s]["user_id"]
    /\ ~has_permission(GetUser(session[s]["user_id"]), "admin")

---------------------------------------------------------------------------
(* Initial state: the tables after db.create_all() and the seeding of the  *)
(* administrator, no session logged in, no request under way               *)

SeededAdmin ==
    [id |-> 1, username |-> "admin",
     password_hash |-> generate_password_hash("salt", "admin123"),
     permissions |-> AdminPermissions]

Init ==
    /\ users = {SeededAdmin}
    /\ persons = {}
    /\ session = [s \in Sessions |-> EmptySession]
    /\ terminated = [s \in Sessions |-> FALSE]
    /\ inflight = <<>>
    /\ last = Response("start", "s1", 0, <<>>, 0, {})

---------------------------------------------------------------------------
(* Handlers *)

\* register without the query for the username
registerWithoutQuery(s, data, salt) ==
    /\ Cardinality(users) < Cardinality(RegisterNames) + 1
    /\ users' = users \cup
            {[id |-> NextId(users),
              username |-> data.username,
              password_hash |-> generate_password_hash(salt, data.password),
              permissions |-> DictGet(data, "permissions", <<READ_PERMISSION>>)]}
    /\ last' = Response("register", s, 201, <<>>, 0, {})
    /\ UNCHANGED <<persons, session, terminated, inflight>>

\* POST /api/register
register(s, data, salt) ==
    IF UserByName(data.username) # NoRow
    THEN /\ last' = Response("register", s, 400, <<"Username already exists">>, 0, {})
         /\ UNCHANGED <<users, persons, session, terminated, inflight>>
    ELSE /\ LET user == [id |-> NextId(users),
                         username |-> data.username,
                         password_hash |->
                             generate_password_hash(salt, data.password),
                         permissions |->
                             DictGet(data, "permissions", <<READ_PERMISSION>>)]
            IN  /\ users' = users \cup {user}
                /\ last' = Response("register", s, 201, <<>>, 0, {})
         /\ UNCHANGED <<persons, session, terminated, inflight>>

\* login that tells an unknown username from a wrong password
loginNamesUnknownUser(s, data) ==
    LET user == UserByName(data.username) IN
    IF user = NoRow
    THEN /\ last' = Response("login", s, 404, <<"Unknown user">>, 0, {})
         /\ UNCHANGED <<users, persons, session, terminated, inflight>>
    ELSE IF ~check_password_hash(user.password_hash, data.password)
    THEN /\ last' = Response("login", s, 401, <<"Invalid credentials">>, 0, {})
         /\ UNCHANGED <<users, persons, session, terminated, inflight>>
    ELSE /\ session' = [session EXCEPT ![s] =
                [user_id |-> user.id, username |-> user.username,
                 permissions |-> user.permissions]]
         /\ terminated' = [terminated EXCEPT ![s] = FALSE]
         /\ last' = Response("login", s, 200, <<>>, 0, {})
         /\ UNCHANGED <<users, persons, inflight>>

\* login that drops the session when the credentials are refused
loginFailureClearsSession(s, data) ==
    LET user == UserByName(data.username) IN
    IF user = NoRow \/ ~check_password_hash(user.password_hash, data.password)
    THEN /\ session' = [session EXCEPT ![s] = EmptySession]
         /\ last' = Response("login", s, 401, <<"Invalid credentials">>, 0, {})
         /\ UNCHANGED <<users, persons, terminated, inflight>>
    ELSE /\ session' = [session EXCEPT ![s] =
                [user_id |-> user.id, username |-> user.username,
                 permissions |-> user.permissions]]
         /\ terminated' = [terminated EXCEPT ![s] = FALSE]
         /\ last' = Response("login", s, 200, <<>>, 0, {})
         /\ UNCHANGED <<users, persons, inflight>>

\* POST /api/login
login(s, data) ==
    LET user == UserByName(data.username) IN
    IF user = NoRow \/ ~check_password_hash(user.password_hash, data.password)
    THEN /\ last' = Response("login", s, 401, <<"Invalid credentials">>, 0, {})
         /\ UNCHANGED <<users, persons, session, terminated, inflight>>
    ELSE /\ session' = [session EXCEPT ![s] =
                [user_id |-> user.id, username |-> user.username,
                 permissions |-> user.permissions]]
         /\ terminated' = [terminated EXCEPT ![s] = FALSE]
         /\ last' = Response("login", s, 200, <<>>, 0, {})
         /\ UNCHANGED <<users, persons, inflight>>

\* logout that answers without clearing the session
logoutKeepsSession(s) ==
    /\ terminated' = [terminated EXCEPT ![s] =
            terminated[s] \/ session[s] # EmptySession]
    /\ last' = Response("logout", s, 200, <<>>, 0, {})
    /\ UNCHANGED <<users, persons, session, inflight>>

\* logout that refuses a session with no user
logoutRequiresLogin(s) ==
    IF NoUserId(s)
    THEN /\ last' = Response("logout", s, 401, <<"Not logged in">>, 0, {})
         /\ UNCHANGED <<users, persons, session, terminated, inflight>>
    ELSE /\ session' = [session EXCEPT ![s] = EmptySession]
         /\ terminated' = [terminated EXCEPT ![s] = TRUE]
         /\ last' = Response("logout", s, 200, <<>>, 0, {})
         /\ UNCHANGED <<users, persons, inflight>>

\* POST /api/logout
logout(s) ==
    /\ session' = [session EXCEPT ![s] = EmptySession]
    /\ terminated' = [terminated EXCEPT ![s] =
            terminated[s] \/ session[s] # EmptySession]
    /\ last' = Response("logout", s, 200, <<>>, 0, {})
    /\ UNCHANGED <<users, persons, inflight>>

\* get_persons listing only what the caller may open one by one
get_personsOwnedOnly(s) ==
    LET denial == Denial(s, READ_PERMISSION) IN
    /\ last' = IF denial # <<>>
               THEN Response("get_persons", s, denial[1], denial[2], 0, {})
               ELSE Response("get_persons", s, 200, <<>>, 0,
                             {PersonJson(p) : p \in
                                 {q \in persons : ~NotOwnerNorAdmin(s, q)}})
    /\ UNCHANGED <<users, persons, session, terminated, inflight>>

\* GET /api/persons
get_persons(s) ==
    LET denial == Denial(s, READ_PERMISSION) IN
    /\ last' = IF denial # <<>>
               THEN Response("get_persons", s, denial[1], denial[2], 0, {})
               ELSE Response("get_persons", s, 200, <<>>, 0,
                             {PersonJson(p) : p \in persons})
    /\ UNCHANGED <<users, persons, session, terminated, inflight>>

\* get_person that answers an unknown id as it answers a record of another
\* user
get_personHidesMissing(s, id) ==
    LET denial == Denial(s, READ_PERMISSION)
        person == FindPerson(id)
    IN
    /\ last' = IF denial # <<>>
               THEN Response("get_person", s, denial[1], denial[2], id, {})
               ELSE IF person = NoRow \/ NotOwnerNorAdmin(s, person)
               THEN Response("get_person", s, 403,
                             <<"Access denied to this resource">>, id, {})
               ELSE Response("get_person", s, 200, <<>>, id,
                             {PersonJson(person)})
    /\ UNCHANGED <<users, persons, session, terminated, inflight>>

\* GET /api/persons/<int:id>
get_person(s, id) ==
    LET denial == Denial(s, READ_PERMISSION)
        person == FindPerson(id)
    IN
    /\ last' = IF denial # <<>>
               THEN Response("get_person", s, denial[1], denial[2], id, {})
               ELSE IF person = NoRow
               THEN Response("get_person", s, 404, <<"Not Found">>, id, {})
               ELSE IF NotOwnerNorAdmin(s, person)
               THEN Response("get_person", s, 403,
                             <<"Access denied to this resource">>, id, {})
               ELSE Response("get_person", s, 200, <<>>, id,
                             {PersonJson(person)})
    /\ UNCHANGED <<users, persons, session, terminated, inflight>>

\* a Person object that takes created_by from the request when it has one
NewPersonTrustsPayload(data, user_id) ==
    [name |-> data["name"], age |-> data["age"], email |-> data["email"],
     phone |-> DictGet(data, "phone", NULL),
     address |-> DictGet(data, "address", NULL),
     created_by |-> DictGet(data, "created_by", user_id)]

\* the Person object create_person builds from the request
NewPerson(data, user_id) ==
    [name |-> data["name"], age |-> data["age"], email |-> data["email"],
     phone |-> DictGet(data, "phone", NULL),
     address |-> DictGet(data, "address", NULL),
     created_by |-> user_id]

\* the row an inserted Person object becomes; `creator` records who made the
\* request that inserted it (no handler reads or writes it)
InsertedRow(obj) ==
    [id |-> NextId(persons), name |-> obj.name, age |-> obj.age,
     email |-> obj.email, phone |-> obj.phone, address |-> obj.address,
     created_by |-> obj.created_by, creator |-> obj.created_by]

\* the sequence q without its i-th element
Remove(q, i) == SubSeq(q, 1, i - 1) \o SubSeq(q, i + 1, Len(q))

\* POST /api/persons, up to the Person object: the decorator, the uniqueness
\* query and the construction of the object
create_person_query(s, data) ==
    LET denial == Denial(s, CREATE_PERMISSION) IN
    /\ IF denial # <<>>
       THEN /\ last' = Response("create_person_query", s, denial[1], denial[2], 0, {})
            /\ UNCHANGED inflight
       ELSE IF EmailExists(data["email"])
       THEN /\ last' = Response("create_person_query", s, 400,
                                <<"Email already exists">>, 0, {})
            /\ UNCHANGED inflight
       ELSE /\ Len(inflight) < MaxInflight
            /\ NextId(persons) + Len(inflight) <= MaxId
            /\ inflight' = Append(inflight,
                    [sess |-> s,
                     person |-> NewPerson(data, session[s]["user_id"])])
            /\ last' = Response("create_person_query", s, 0, <<>>, 0, {})
    /\ UNCHANGED <<users, persons, session, terminated>>

\* POST /api/persons, from db.session.add on: the insert and the commit, which
\* the table's constraints let through or fail with an IntegrityError
create_person_commit(i) ==
    /\ i \in DOMAIN inflight
    /\ NextId(persons) <= MaxId
    /\ inflight' = Remove(inflight, i)
    /\ LET row == InsertedRow(inflight[i].person) IN
       IF PersonTableOK(persons \cup {row})
       THEN /\ persons' = persons \cup {row}
            /\ last' = Response("create_person_commit", inflight[i].sess, 201,
                                <<>>, 0, {PersonJson(row)})
       ELSE /\ last' = Response("create_person_commit", inflight[i].sess, 500,
                                <<"Internal Server Error">>, 0, {})
            /\ UNCHANGED persons
    /\ UNCHANGED <<users, session, terminated>>

\* hasattr(person, key), for the keys request bodies carry
Hasattr(key) == key \in PersonColumns

\* an update that rebuilds the row from the request: an age the request does
\* not carry becomes 0
ApplyUpdateResetsAge(person, data) ==
    [c \in DOMAIN person |->
        IF c \in DOMAIN data /\ Hasattr(c) THEN data[c]
        ELSE IF c = "age" THEN 0
        ELSE person[c]]

\* the loop of setattr over the request's items
ApplyUpdate(person, data) ==
    [c \in DOMAIN person |->
        IF c \in DOMAIN data /\ Hasattr(c) THEN data[c] ELSE person[c]]

\* update_person that looks the record up before the decorator's checks
update_personLookupFirst(s, id, data) ==
    LET denial == Denial(s, UPDATE_PERMISSION)
        person == FindPerson(id)
        rows   == (persons \ {person}) \cup {ApplyUpdate(person, data)}
    IN
    /\ IF person = NoRow
       THEN /\ last' = Response("update_person", s, 404, <<"Not Found">>, id, {})
            /\ UNCHANGED persons
       ELSE IF denial # <<>>
       THEN /\ last' = Response("update_person", s, denial[1], denial[2], id, {})
            /\ UNCHANGED persons
       ELSE IF NotOwnerNorAdmin(s, person)
       THEN /\ last' = Response("update_person", s, 403,
                                <<"Cannot update this person">>, id, {})
            /\ UNCHANGED persons
       ELSE IF /\ "email" \in DOMAIN data
               /\ data["email"] # person.email
               /\ EmailExists(data["email"])
       THEN /\ last' = Response("update_person", s, 400,
                                <<"Email already exists">>, id, {})
            /\ UNCHANGED persons
       ELSE IF PersonTableOK(rows)
       THEN /\ persons' = rows
            /\ last' = Response("update_person", s, 200, <<>>, id,
                                {PersonJson(ApplyUpdate(person, data))})
       ELSE /\ last' = Response("update_person", s, 500,
                                <<"Internal Server Error">>, id, {})
            /\ UNCHANGED persons
    /\ UNCHANGED <<users, session, terminated, inflight>>

\* PUT /api/persons/<int:id>
update_person(s, id, data) ==
    LET denial == Denial(s, UPDATE_PERMISSION)
        person == FindPerson(id)
        rows   == (persons \ {person}) \cup {ApplyUpdate(person, data)}
    IN
    /\ IF denial # <<>>
       THEN /\ last' = Response("update_person", s, denial[1], denial[2], id, {})
            /\ UNCHANGED persons
       ELSE IF person = NoRow
       THEN /\ last' = Response("update_person", s, 404, <<"Not Found">>, id, {})
            /\ UNCHANGED persons
       ELSE IF NotOwnerNorAdmin(s, person)
       THEN /\ last' = Response("update_person", s, 403,
                                <<"Cannot update this person">>, id, {})
            /\ UNCHANGED persons
       ELSE IF /\ "email" \in DOMAIN data
               /\ data["email"] # person.email
               /\ EmailExists(data["email"])
       THEN /\ last' = Response("update_person", s, 400,
                                <<"Email already exists">>, id, {})
            /\ UNCHANGED persons
       ELSE IF PersonTableOK(rows)
       THEN /\ persons' = rows
            /\ last' = Response("update_person", s, 200, <<>>, id,
                                {PersonJson(ApplyUpdate(person, data))})
       ELSE /\ last' = Response("update_person", s, 500,
                                <<"Internal Server Error">>, id, {})
            /\ UNCHANGED persons
    /\ UNCHANGED <<users, session, terminated, inflight>>

\* delete_person that deletes the row before it tests the ownership
delete_personDeletesFirst(s, id) ==
    LET denial == Denial(s, DELETE_PERMISSION)
        person == FindPerson(id)
    IN
    /\ IF denial # <<>>
       THEN /\ last' = Response("delete_person", s, denial[1], denial[2], id, {})
            /\ UNCHANGED persons
       ELSE IF person = NoRow
       THEN /\ last' = Response("delete_person", s, 404, <<"Not Found">>, id, {})
            /\ UNCHANGED persons
       ELSE /\ persons' = persons \ {person}
            /\ last' = IF NotOwnerNorAdmin(s, person)
                       THEN Response("delete_person", s, 403,
                                     <<"Cannot delete this person">>, id, {})
                       ELSE Response("delete_person", s, 200, <<>>, id, {})
    /\ UNCHANGED <<users, session, terminated, inflight>>

\* DELETE /api/persons/<int:id>
delete_person(s, id) ==
    LET denial == Denial(s, DELETE_PERMISSION)
        person == FindPerson(id)
    IN
    /\ IF denial # <<>>
       THEN /\ last' = Response("delete_person", s, denial[1], denial[2], id, {})
            /\ UNCHANGED persons
       ELSE IF person = NoRow
       THEN /\ last' = Response("delete_person", s, 404, <<"Not Found">>, id, {})
            /\ UNCHANGED persons
       ELSE IF NotOwnerNorAdmin(s, person)
       THEN /\ last' = Response("delete_person", s, 403,
                                <<"Cannot delete this person">>, id, {})
            /\ UNCHANGED persons
       ELSE /\ persons' = persons \ {person}
            /\ last' = Response("delete_person", s, 200, <<>>, id, {})
    /\ UNCHANGED <<users, session, terminated, inflight>>

\* GET /api/user/permissions
get_user_permissions(s) ==
    /\ last' = IF "user_id" \notin DOMAIN session[s]
               THEN Response("get_user_permissions", s, 401,
                             <<"Not authenticated">>, 0, {})
               ELSE Response("get_user_permissions", s, 200, <<>>, 0, {})
    /\ UNCHANGED <<users, persons, session, terminated, inflight>>

Next ==
    \/ \E s \in Sessions, data \in RegisterPayloads, salt \in Salts :
          register(s, data, salt)
    \/ \E s \in Sessions, data \in LoginPayloads : login(s, data)
    \/ \E s \in Sessions : logout(s)
    \/ \E s \in Sessions : get_persons(s)
    \/ \E s \in Sessions, id \in RouteIds : get_person(s, id)
    \/ \E s \in Sessions, data \in CreatePayloads : create_person_query(s, data)
    \/ \E i \in 1 .. MaxInflight : create_person_commit(i)
    \/ \E s \in Sessions, id \in RouteIds, data \in UpdatePayloads :
          update_person(s, id, data)
    \/ \E s \in Sessions, id \in RouteIds : delete_person(s, id)
    \/ \E s \in Sessions : get_user_permissions(s)

Spec == Init /\ [][Next]_vars

----------------------------------------------------------------------------
(* The same handlers asked with ages of either sign.  The 'age' of a       *)
(* request body is whatever integer the client sends: create_person and    *)
(* update_person read it with data['age'] and setattr, and the column is   *)
(* db.Integer.                                                             *)

AgesOfEitherSign == {30, -1}

\* JSON bodies of create requests, the age of either sign
CreatePayloadsAge == [name : {"Ann"}, age : AgesOfEitherSign, email : Emails]

\* JSON bodies of update requests, the age of either sign
UpdatePayloadsAge == [age : AgesOfEitherSign] \cup [email : Emails]

NextAge ==
    \/ \E s \in Sessions, data \in RegisterPayloads, salt \in Salts :
          register(s, data, salt)
    \/ \E s \in Sessions, data \in LoginPayloads : login(s, data)
    \/ \E s \in Sessions : logout(s)
    \/ \E s \in Sessions : get_persons(s)
    \/ \E s \in Sessions, id \in RouteIds : get_person(s, id)
    \/ \E s \in Sessions, data \in CreatePayloadsAge :
          create_person_query(s, data)
    \/ \E i \in 1 .. MaxInflight : create_person_commit(i)
    \/ \E s \in Sessions, id \in RouteIds, data \in UpdatePayloadsAge :
          update_person(s, id, data)
    \/ \E s \in Sessions, id \in RouteIds : delete_person(s, id)
    \/ \E s \in Sessions : get_user_permissions(s)

SpecAge == Init /\ [][NextAge]_vars

----------------------------------------------------------------------------
(* The same handlers next to a direct change of a user's permissions.  No  *)
(* route of the application writes User.permissions after register; the    *)
(* grant below is a write to that column from outside the handlers (an     *)
(* administrative grant or revocation), which may come between any two     *)
(* requests.                                                               *)

\* the permission texts a grant or a revocation may write
GrantInputs == {<<READ_PERMISSION>>, AdminPermissions}

\* JSON bodies of create requests with the required keys only
CreatePayloadsRequired == [name : {"Ann"}, age : Ages, email : Emails]

\* JSON bodies of update requests that change the email
UpdatePayloadsEmail == [email : Emails]

\* the permissions column of user user_id is overwritten
grant(user_id, permissions) ==
    /\ GetUser(user_id) # NoRow
    /\ GetUser(user_id).permissions # permissions
    /\ users' = (users \ {GetUser(user_id)})
                    \cup {[GetUser(user_id) EXCEPT !.permissions = permissions]}
    /\ last' = Response("grant", "s1", 0, <<>>, 0, {})
    /\ UNCHANGED <<persons, session, terminated, inflight>>

NextGrant ==
    \/ \E s \in Sessions, data \in RegisterPayloads, salt \in Salts :
          register(s, data, salt)
    \/ \E s \in Sessions, data \in LoginPayloads : login(s, data)
    \/ \E s \in Sessions : logout(s)
    \/ \E s \in Sessions : get_persons(s)
    \/ \E s \in Sessions, id \in RouteIds : get_person(s, id)
    \/ \E s \in Sessions, data \in CreatePayloadsRequired :
          create_person_query(s, data)
    \/ \E i \in 1 .. MaxInflight : create_person_commit(i)
    \/ \E s \in Sessions, id \in RouteIds, data \in UpdatePayloadsEmail :
          update_person(s, id, data)
    \/ \E s \in Sessions, id \in RouteIds : delete_person(s, id)
    \/ \E s \in Sessions : get_user_permissions(s)
    \/ \E user_id \in UserIds, permissions \in GrantInputs :
          grant(user_id, permissions)

SpecGrant == Init /\ [][NextGrant]_vars

---------------------------------------------------------------------------
(* Vocabulary of the properties *)

\* the permission each guarded operation requires (spec.md, section 4.5)
RequiredPermission ==
    [get_persons |-> "read", get_person |-> "read",
     create_person_query |-> "create", update_person |-> "update",
     delete_person |-> "delete"]

SingleRecordOps == {"get_person", "update_person", "delete_person"}

PermissionDenied(permission) == <<"Permission denied. Requires: ", permission>>

Unauthenticated == <<"Authentication required">>

DuplicateEmail == <<"Email already exists">>

OwnershipDenied ==
    [get_person |-> <<"Access denied to this resource">>,
     update_person |-> <<"Cannot update this person">>,
     delete_person |-> <<"Cannot delete this person">>]

\* the user session s is logged in as (evaluated before the step)
Caller(s) == GetUser(session[s]["user_id"])

---------------------------------------------------------------------------
(* Properties.  In a step, last' is the answer of the request the step     *)
(* serves, and the unprimed variables are the state the request found.     *)

\* C1: a guarded Person operation asked by a logged-in user whose permission
\* set lacks the permission the operation requires is answered 403
\* "Permission denied" naming that permission, and changes neither the Person
\* table nor the requests under way, whoever created the target and whether
\* or not the user holds admin.
C1_DeniedWithoutPermission ==
    [][LET op == last'.op
           s  == last'.sess
       IN  ( /\ op \in DOMAIN RequiredPermission
             /\ ~NoUserId(s)
             /\ ~has_permission(Caller(s), RequiredPermission[op]) )
           => /\ last'.code = 403
              /\ last'.error = PermissionDenied(RequiredPermission[op])
              /\ persons' = persons
              /\ inflight' = inflight]_vars

\* C1's case: a holder of admin without read asked for a record it created
\* itself and was answered "Permission denied. Requires: read".
C1_Witness ==
    /\ last.op = "get_person"
    /\ last.code = 403
    /\ last.error = PermissionDenied("read")
    /\ ~NoUserId(last.sess)
    /\ has_permission(Caller(last.sess), "admin")
    /\ \E p \in persons :
          p.id = last.id /\ p.created_by = session[last.sess]["user_id"]

\* C2: for a logged-in user without admin, get-one, update and delete on an
\* existing record whose created_by is not the user's id are answered 403 (the
\* ownership error when the user holds the base permission) and change
\* nothing; and no step of such a user changes or deletes a record that
\* another user created.
C2_OnlyCreatorOrAdminTouches ==
    [][LET op == last'.op
           s  == last'.sess
           r  == FindPerson(last'.id)
       IN  ( /\ op \in SingleRecordOps
             /\ ~NoUserId(s)
             /\ r # NoRow
             /\ ~has_permission(Caller(s), "admin") )
           => /\ r.created_by # Caller(s).id
                    => /\ last'.code = 403
                       /\ persons' = persons
                       /\ has_permission(Caller(s), RequiredPermission[op])
                              => last'.error = OwnershipDenied[op]
              /\ persons' # persons => r.creator = Caller(s).id]_vars

\* The gate of C2 read on the stored column alone: a user without admin never
\* opens, changes or deletes a record whose created_by is another user's id.
OwnershipGateOnStoredColumn ==
    [][LET op == last'.op
           s  == last'.sess
           r  == FindPerson(last'.id)
       IN  ( /\ op \in SingleRecordOps
             /\ ~NoUserId(s)
             /\ r # NoRow
             /\ ~has_permission(Caller(s), "admin")
             /\ r.created_by # Caller(s).id )
           => /\ last'.code = 403
              /\ persons' = persons]_vars

\* C3: a logged-in holder of admin and of the base permission is never
\* answered the ownership error; get-one and delete on an existing record
\* answer 200, and update on an existing record answers 200 unless it answers
\* 400 "Email already exists".
C3_AdminOverridesOwnership ==
    [][LET op == last'.op
           s  == last'.sess
           r  == FindPerson(last'.id)
       IN  ( /\ op \in SingleRecordOps
             /\ ~NoUserId(s)
             /\ r # NoRow
             /\ has_permission(Caller(s), "admin")
             /\ has_permission(Caller(s), RequiredPermission[op]) )
           => /\ last'.error # OwnershipDenied[op]
              /\ op \in {"get_person", "delete_person"} => last'.code = 200
              /\ op = "update_person"
                    => \/ last'.code = 200
                       \/ last'.code = 400 /\ last'.error = DuplicateEmail]_vars

\* C4: get_persons asked by a logged-in holder of read answers 200 with the
\* dictionaries of all the rows of the Person table, whoever created them,
\* and leaves the table unchanged.
C4_ListReturnsEveryRecord ==
    [][LET s == last'.sess
       IN  ( /\ last'.op = "get_persons"
             /\ ~NoUserId(s)
             /\ has_permission(Caller(s), "read") )
           => /\ last'.code = 200
              /\ last'.body = {PersonJson(p) : p \in persons}
              /\ persons' = persons]_vars

\* C4's case: a user without admin who created none of the rows listed a
\* non-empty table and got every row.
C4_Witness ==
    /\ last.op = "get_persons"
    /\ last.code = 200
    /\ persons # {}
    /\ last.body = {PersonJson(p) : p \in persons}
    /\ ~NoUserId(last.sess)
    /\ ~has_permission(Caller(last.sess), "admin")
    /\ \A p \in persons : p.created_by # session[last.sess]["user_id"]

\* C5: between a logout that ended a login of a session and the next
\* successful login on it, every guarded operation of that session is
\* answered 401 "Authentication required" and changes neither the tables nor
\* the requests under way.
C5_UnauthenticatedAfterLogout ==
    [][LET op == last'.op
           s  == last'.sess
       IN  ( /\ op \in DOMAIN RequiredPermission
             /\ terminated[s] )
           => /\ last'.code = 401
              /\ last'.error = Unauthenticated
              /\ persons' = persons
              /\ users' = users
              /\ inflight' = inflight]_vars

\* C5's case: after the logout of a user who had created a record, a delete
\* of that record with the same session is answered 401 and the record stays.
C5_Witness ==
    /\ last.op = "delete_person"
    /\ last.code = 401
    /\ last.error = Unauthenticated
    /\ terminated[last.sess]
    /\ \E p \in persons : p.id = last.id

\* C6: a create request that passed the uniqueness query while a concurrent
\* request with the same email was under way, and finds the email taken when
\* its insert runs, ends 400 "Email already exists" and inserts nothing; a
\* create request whose email is still free at its insert ends 201 and
\* inserts exactly its record.
C6_ConcurrentCreateSameEmail ==
    [][last'.op = "create_person_commit"
        => \A i \in DOMAIN inflight :
             (inflight' = Remove(inflight, i) /\ last'.sess = inflight[i].sess)
             => IF EmailExists(inflight[i].person.email)
                THEN /\ last'.code = 400
                     /\ last'.error = DuplicateEmail
                     /\ persons' = persons
                ELSE /\ last'.code = 201
                     /\ \E r \in persons' :
                           /\ r \notin persons
                           /\ persons' = persons \cup {r}
                           /\ r.email = inflight[i].person.email]_vars

\* no two rows of the Person table hold the same email
UniqueEmails == \A p, q \in persons : p.email = q.email => p = q

\* C7: after every step no two rows of the Person table hold the same email;
\* a create request that passes the permission check with an email some row
\* holds is answered 400 "Email already exists", and so is an update that
\* passes the permission, existence and ownership checks with an email that
\* another row holds; both change nothing.
C7_EmailsStayUnique ==
    [][/\ UniqueEmails'
       /\ (last'.op = "create_person_query" /\ last'.code \notin {401, 403})
             => \A data \in CreatePayloads :
                  ( /\ \E q \in persons : q.email = data["email"]
                    /\ create_person_query(last'.sess, data) )
                  => /\ last'.code = 400
                     /\ last'.error = DuplicateEmail
                     /\ persons' = persons
                     /\ inflight' = inflight
       /\ (last'.op = "update_person" /\ last'.code \notin {401, 403, 404})
             => \A data \in UpdatePayloads :
                  ( /\ "email" \in DOMAIN data
                    /\ \E q \in persons :
                          q.id # last'.id /\ q.email = data["email"]
                    /\ update_person(last'.sess, last'.id, data) )
                  => /\ last'.code = 400
                     /\ last'.error = DuplicateEmail
                     /\ persons' = persons]_vars

\* C7's case: with two rows in the table, an update asking for the email of
\* the other row was answered 400 "Email already exists".
C7_Witness ==
    /\ last.op = "update_person"
    /\ last.code = 400
    /\ last.error = DuplicateEmail
    /\ Cardinality(persons) = 2
    /\ UniqueEmails

\* C8: an update answered 200 leaves the id and the created_by of the record
\* it was asked for as they were, and touches no other record.
C8_UpdateKeepsIdAndCreatedBy ==
    [][(last'.op = "update_person" /\ last'.code = 200)
        => LET r == FindPerson(last'.id)
           IN  \E r2 \in persons' :
                  /\ r2.id = r.id
                  /\ r2.created_by = r.created_by
                  /\ persons' \ {r2} = persons \ {r}]_vars

\* C9: the Person object a create request builds carries the id of the user
\* the request's session is logged in as (the request bodies of the model
\* name every user id as 'created_by', or none), and the row a create request inserts (201) carries the
\* created_by of its object and is the row the response shows.
C9_CreateStampsCaller ==
    [][/\ (last'.op = "create_person_query" /\ last'.code = 0)
             => /\ Len(inflight') = Len(inflight) + 1
                /\ inflight'[Len(inflight')].sess = last'.sess
                /\ inflight'[Len(inflight')].person.created_by
                      = session[last'.sess]["user_id"]
       /\ (last'.op = "create_person_commit" /\ last'.code = 201)
             => \E i \in DOMAIN inflight, r \in persons' :
                   /\ inflight' = Remove(inflight, i)
                   /\ r \notin persons
                   /\ persons' = persons \cup {r}
                   /\ r.created_by = inflight[i].person.created_by
                   /\ last'.body = {PersonJson(r)}]_vars

\* C9's case: a create request of a registered user (not the seeded
\* administrator) ended 201 and the row carries that user's id.
C9_Witness ==
    /\ last.op = "create_person_commit"
    /\ last.code = 201
    /\ ~NoUserId(last.sess)
    /\ session[last.sess]["user_id"] # 1
    /\ \E r \in persons :
          /\ last.body = {PersonJson(r)}
          /\ r.created_by = session[last.sess]["user_id"]

\* no two rows of the User table hold the same username
UniqueUsernames == \A u, v \in users : u.username = v.username => u = v

\* C10: a register request whose username some row of the User table holds
\* is answered 400 "Username already exists" and leaves the User table as it
\* was; a register request answered 201 adds one row, with a username no row
\* held; and after every step no two users share a username.
C10_DuplicateUsernameRejected ==
    [][/\ last'.op = "register"
             => \A data \in RegisterPayloads, salt \in Salts :
                  ( /\ \E u \in users : u.username = data.username
                    /\ register(last'.sess, data, salt) )
                  => /\ last'.code = 400
                     /\ last'.error = <<"Username already exists">>
                     /\ users' = users
       /\ (last'.op = "register" /\ last'.code = 201)
             => \E u \in users' :
                   /\ users' = users \cup {u}
                   /\ \A v \in users : v.username # u.username /\ v.id # u.id
       /\ UniqueUsernames']_vars

\* C10's case: with a registered user in the table, a register request was
\* answered 400 "Username already exists".
C10_Witness ==
    /\ last.op = "register"
    /\ last.code = 400
    /\ last.error = <<"Username already exists">>
    /\ Cardinality(users) = 2
    /\ UniqueUsernames

InvalidCredentials == <<"Invalid credentials">>

\* C11: a login request naming no user and a login request naming a user
\* with a password that does not match are given one and the same answer,
\* 401 "Invalid credentials" with nothing else in it, and neither changes the
\* session (or anything but the answer).
C11_LoginFailuresAlike ==
    [][last'.op = "login"
        => \A data \in LoginPayloads :
             ( /\ login(last'.sess, data)
               /\ \/ \A u \in users : u.username # data.username
                  \/ \E u \in users :
                        /\ u.username = data.username
                        /\ ~check_password_hash(u.password_hash, data.password) )
             => /\ last' = Response("login", last'.sess, 401,
                                    InvalidCredentials, 0, {})
                /\ UNCHANGED <<users, persons, session, terminated,
                               inflight>>]_vars

\* C11's case: with a registered user in the table (so that a request can
\* fail either way), a login on a session with no user was answered 401
\* "Invalid credentials" and the session still has no user.
C11_Witness ==
    /\ last.op = "login"
    /\ last.code = 401
    /\ last.error = InvalidCredentials
    /\ Cardinality(users) = 2
    /\ session[last.sess] = EmptySession

\* C12: logout always answers 200 with no error and leaves the session
\* without a user, whether the session was logged in, logged out or never
\* logged in; it changes neither table; on a session with no user it changes
\* no part of the session, and a logout right after a logout of the same
\* session changes nothing at all.
C12_LogoutIdempotent ==
    [][last'.op = "logout"
        => /\ last'.code = 200
           /\ last'.error = <<>>
           /\ session'[last'.sess] = EmptySession
           /\ users' = users
           /\ persons' = persons
           /\ inflight' = inflight
           /\ session[last'.sess] = EmptySession => session' = session
           /\ (last.op = "logout" /\ last.sess = last'.sess)
                 => UNCHANGED <<session, terminated>>]_vars

\* C12's case: a logout on a session that never logged in was answered 200.
C12_Witness ==
    /\ last.op = "logout"
    /\ last.code = 200
    /\ session[last.sess] = EmptySession
    /\ ~terminated[last.sess]

MutatingOps ==
    {"create_person_query", "create_person_commit", "update_person",
     "delete_person"}

NotFound == <<"Not Found">>

\* C13: a create, update or delete request that ends in an error (a status of
\* 400 or more: 401, 403, 404, 400 "Email already exists", and the 500 of a
\* failed commit) leaves the Person table exactly as it was, and an error
\* answered by the first step of create leaves no object waiting for insert.
C13_ErrorsWriteNothing ==
    [][(last'.op \in MutatingOps /\ last'.code >= 400)
        => /\ persons' = persons
           /\ users' = users
           /\ last'.op # "create_person_commit" => inflight' = inflight]_vars

\* C13's case: an update of an existing record by a user allowed to change it
\* was rejected (400) and the table holds the record as before, next to
\* the record whose email the request asked for.
C13_Witness ==
    /\ last.op = "update_person"
    /\ last.code = 400
    /\ FindPerson(last.id) # NoRow
    /\ ~NoUserId(last.sess)
    /\ ~NotOwnerNorAdmin(last.sess, FindPerson(last.id))
    /\ \E q \in persons : q.id # last.id

\* C14: for a logged-in holder of the base permission, get-one, update and
\* delete on an id no row has are answered 404 "Not Found" and change
\* nothing; the ownership error is answered only for ids of existing rows,
\* and it is not the 404 answer.
C14_NotFoundDistinct ==
    [][LET op == last'.op
           s  == last'.sess
       IN  ( /\ op \in SingleRecordOps
             /\ ~NoUserId(s)
             /\ has_permission(Caller(s), RequiredPermission[op]) )
           => /\ FindPerson(last'.id) = NoRow
                    => /\ last'.code = 404
                       /\ last'.error = NotFound
                       /\ persons' = persons
              /\ last'.error = OwnershipDenied[op]
                    => /\ FindPerson(last'.id) # NoRow
                       /\ last'.code = 403
              /\ NotFound # OwnershipDenied[op]]_vars

\* C14's case: a user without admin, holding delete, asked to delete an id no
\* row has while the table holds a row of another user, and was answered 404.
C14_Witness ==
    /\ last.op = "delete_person"
    /\ last.code = 404
    /\ last.error = NotFound
    /\ ~NoUserId(last.sess)
    /\ ~has_permission(Caller(last.sess), "admin")
    /\ FindPerson(last.id) = NoRow
    /\ \E q \in persons : q.created_by # session[last.sess]["user_id"]

\* the words of a user's permission text, as has_permission sees them
PermissionSet(user) ==
    {Split(user.permissions)[i] : i \in DOMAIN Split(user.permissions)}

\* the closed set of permissions
ClosedPermissionSet ==
    {<<READ_PERMISSION>>, <<CREATE_PERMISSION>>, <<UPDATE_PERMISSION>>,
     <<DELETE_PERMISSION>>, <<"admin">>}

\* C15: in every reachable state the permission set of every user is not
\* empty and holds only members of {read, create, update, delete, admin}
\* (a text without any permission word counts as the empty set).
C15_PermissionsInClosedSet ==
    \A u \in users :
        /\ PermissionSet(u) # {}
        /\ PermissionSet(u) \subseteq ClosedPermissionSet

\* C16: in every reachable state every row of the Person table has an age
\* of 0 or more.
C16_AgesNonNegative == \A p \in persons : p.age >= 0

\* the permissions copied into session s at login
Snapshot(s) == [permissions |-> session[s]["permissions"]]

\* C17: with the permissions column open to a direct grant or revocation
\* between requests, every permission check of a logged-in session denies
\* exactly when the user's stored permissions, as the request finds them,
\* lack the required permission, and every ownership check on a record of
\* another user denies exactly when the stored permissions lack admin; the
\* copy of the permissions in the session has no part in either decision.
C17_StoredPermissionsDecide ==
    [][LET op == last'.op
           s  == last'.sess
       IN  (op \in DOMAIN RequiredPermission /\ ~NoUserId(s))
           => /\ (last'.code = 403
                    /\ last'.error = PermissionDenied(RequiredPermission[op]))
                 <=> ~has_permission(Caller(s), RequiredPermission[op])
              /\ ( /\ op \in SingleRecordOps
                   /\ has_permission(Caller(s), RequiredPermission[op])
                   /\ FindPerson(last'.id) # NoRow
                   /\ FindPerson(last'.id).created_by # session[s]["user_id"] )
                 => (last'.code = 403 /\ last'.error = OwnershipDenied[op])
                    <=> ~has_permission(Caller(s), "admin")]_vars

\* C17's case: a session logged in before a grant, whose copy of the
\* permissions lacks delete and admin, deleted a record of another user
\* after the grant.
C17_Witness ==
    /\ last.op = "delete_person"
    /\ last.code = 200
    /\ ~NoUserId(last.sess)
    /\ ~has_permission(Snapshot(last.sess), DELETE_PERMISSION)
    /\ ~has_permission(Snapshot(last.sess), "admin")
    /\ has_permission(Caller(last.sess), DELETE_PERMISSION)
    /\ has_permission(Caller(last.sess), "admin")

\* the decision of a single-record operation op on id asked in session s,
\* evaluated in the order no user, permission, record, ownership: the
\* <<status, error>> of a denial, <<>> when the operation is allowed
ReferenceDecision(s, op, id) ==
    IF NoUserId(s)
    THEN <<401, Unauthenticated>>
    ELSE IF RequiredPermission[op] \notin
                {w[1] : w \in {x \in PermissionSet(Caller(s)) : Len(x) = 1}}
    THEN <<403, PermissionDenied(RequiredPermission[op])>>
    ELSE IF \A p \in persons : p.id # id
    THEN <<404, NotFound>>
    ELSE IF \E p \in persons :
                /\ p.id = id
                /\ p.created_by # Caller(s).id
                /\ <<"admin">> \notin PermissionSet(Caller(s))
    THEN <<403, OwnershipDenied[op]>>
    ELSE <<>>

\* C18: the answer of every get-one, update and delete request is the
\* reference decision: its status and error when the reference denies, and
\* none of the four denials when the reference allows.
C18_DecisionOrder ==
    [][last'.op \in SingleRecordOps
        => LET ref == ReferenceDecision(last'.sess, last'.op, last'.id) IN
           IF ref # <<>>
           THEN /\ last'.code = ref[1]
                /\ last'.error = ref[2]
                /\ UNCHANGED <<users, persons, session>>
           ELSE /\ last'.code \notin {401, 404}
                /\ last'.error # PermissionDenied(RequiredPermission[last'.op])
                /\ last'.error # OwnershipDenied[last'.op]]_vars

\* C18's case: a logged-in user without update asked to update an id no row
\* has, and was answered PermissionDenied, not NotFound.
C18_Witness ==
    /\ last.op = "update_person"
    /\ last.code = 403
    /\ last.error = PermissionDenied(UPDATE_PERMISSION)
    /\ ~NoUserId(last.sess)
    /\ FindPerson(last.id) = NoRow
    /\ persons # {}

\* C19: the user a session is bound to changes only in a login answered 200
\* or in a logout, of that session: a login answered 401 leaves a session
\* logged in as it was, and register and the Person operations leave every
\* session as it was.
C19_SessionChangesOnlyByLoginLogout ==
    [][\A s \in Sessions :
          session'[s] # session[s]
            => /\ last'.sess = s
               /\ \/ last'.op = "login" /\ last'.code = 200
                  \/ last'.op = "logout"]_vars

\* C19's case: a login with bad credentials was answered 401 on a session
\* logged in as a registered user, and the session is still that user's.
C19_Witness ==
    /\ last.op = "login"
    /\ last.code = 401
    /\ ~NoUserId(last.sess)
    /\ session[last.sess]["username"] = "bob"

\* C20: an update answered 200 replaces the row R of the route's id by one
\* row and leaves every other row and every user as they were, and R keeps
\* every column the request body does not carry; a delete answered 200
\* removes R and nothing else, and leaves every user as it was.
C20_OnlyTargetAffected ==
    [][LET R == FindPerson(last'.id) IN
       /\ (last'.op = "update_person" /\ last'.code = 200)
            => /\ R # NoRow
               /\ users' = users
               /\ persons \ {R} \subseteq persons'
               /\ Cardinality(persons') = Cardinality(persons)
               /\ \A data \in UpdatePayloads :
                     update_person(last'.sess, last'.id, data)
                       => \E R2 \in persons' :
                            /\ persons' = (persons \ {R}) \cup {R2}
                            /\ \A c \in DOMAIN R \ DOMAIN data : R2[c] = R[c]
       /\ (last'.op = "delete_person" /\ last'.code = 200)
            => /\ R # NoRow
               /\ users' = users
               /\ persons' = persons \ {R}]_vars

\* C20's case: an update that carried the email only was answered 200 while
\* the table holds a second row; the updated row has the age it had.
C20_Witness ==
    /\ last.op = "update_person"
    /\ last.code = 200
    /\ Cardinality(persons) = 2
    /\ \E p \in last.body : p.email = "bo@x.com" /\ p.age = 30 /\ p.id = last.id
    /\ \E q \in persons : q.id # last.id /\ q.email = "ann@x.com"

====
